---- MODULE Spec2Model ----
(***************************************************************************)
(* Model of the nym-node auto updater (src/script.py).                     *)
(*                                                                         *)
(* One run of main() is a sequence of steps; every step that calls out to  *)
(* the environment (GitHub, wget, chmod, service, systemctl, the file      *)
(* system, journalctl) draws the environment's answer with \E.  The state  *)
(* that survives a run is the state file, the installed binary, the        *)
(* downloaded artifacts and the service; runs follow one another.          *)
(*                                                                         *)
(* Strings are sequences of tokens.  A release tag is a sequence over      *)
(* "nym-binaries", "-v", digits, "." and a code name; a journal line is a  *)
(* sequence over the "Packets sent [total]" header, digits, ".", "K", "M"  *)
(* and other text.  The regular expressions of the source are applied to   *)
(* those sequences token by token.                                         *)
(*                                                                         *)
(* Time is counted in seconds.  Computation takes no time: time passes     *)
(* only while monitor_packets sleeps or waits in thread.join.              *)
(***************************************************************************)
EXTENDS Integers, Sequences, FiniteSets, TLC

VARIABLES
    \* ---- what survives a run
    state_file,     \* content of STATE_FILE, or NoFile
    binary,         \* what DOWNLOAD_DIR/BINARY_FILENAME holds
    artifacts,      \* the tags whose download DOWNLOAD_DIR/<tag> exists
    service,        \* "running" | "stopped"
    \* ---- one run of main()
    pc,             \* position of main()
    latest_tag,     \* main: latest_tag
    last_tag,       \* main: last_tag
    logged,         \* the last outcome line written to the logger
    exit_code,      \* Running, or the exit status of the process
    events,         \* the external operations this run performed, in order
    runs,           \* number of runs started
    \* ---- monitor_packets
    mpc,            \* position of the polling thread
    now,            \* time.time()
    start_time,     \* monitor_packets: start_time
    wake,           \* when the current sleep / join ends
    last_value,     \* monitor_packets: last_value, in tenths
    reader,         \* the reader thread
    proc,           \* the journalctl process: none, running, terminating, terminated
    pipe,           \* lines written by journalctl and not yet read
    emitted,        \* number of lines journalctl wrote
    result,         \* what monitor_packets returned
    ret_time,       \* when it returned
    pos_time,       \* when the stream first carried a positive value
    stored          \* the values the reader assigned to last_value, in order

persistent == <<state_file, binary, artifacts, service>>
mainvars   == <<pc, latest_tag, last_tag, logged, exit_code, events, runs>>
monvars    == <<mpc, now, start_time, wake, last_value, reader, proc, pipe,
                emitted, result, ret_time, pos_time, stored>>
vars       == <<state_file, binary, artifacts, service,
                pc, latest_tag, last_tag, logged, exit_code, events, runs,
                mpc, now, start_time, wake, last_value, reader, proc, pipe,
                emitted, result, ret_time, pos_time, stored>>

(***************************************************************************)
(* Bounds                                                                  *)
(***************************************************************************)
MaxRuns     == 2    \* runs of main() in one behaviour
MaxReleases == 2    \* length of the release list GitHub answers with
MaxLines    == 2    \* lines journalctl writes during one observation
\* The arguments of monitor_packets.  update_binary passes the defaults, 600
\* and 10; the model observes with small values, the timeout a multiple of
\* the interval as 600 is of 10.
timeout        == 4 \* monitor_packets(timeout=...), seconds
check_interval == 2 \* monitor_packets(check_interval=...), seconds

JoinTimeout == 1    \* thread.join(timeout=1)

(***************************************************************************)
(* Strings                                                                 *)
(***************************************************************************)
Empty  == <<>>          \* the empty string ""
NoFile == <<"ENOENT">>  \* STATE_FILE does not exist
Digits == {"0", "1", "2", "3", "4", "5"}
Space  == {" ", "\n"}

DigitVal(c) ==
    CASE c = "0" -> 0 [] c = "1" -> 1 [] c = "2" -> 2
      [] c = "3" -> 3 [] c = "4" -> 4 [] c = "5" -> 5

\* index just past the longest run of tokens of `set` that starts at s[i]
RECURSIVE RunEnd(_, _, _)
RunEnd(s, i, set) ==
    IF i <= Len(s) /\ s[i] \in set THEN RunEnd(s, i + 1, set) ELSE i

\* int(s[i..j-1]) for a run of digits
RECURSIVE ToInt(_, _, _)
ToInt(s, i, j) ==
    IF j <= i THEN 0 ELSE ToInt(s, i, j - 1) * 10 + DigitVal(s[j - 1])

\* str.strip()
RECURSIVE LStrip(_)
LStrip(s) == IF s # <<>> /\ Head(s) \in Space THEN LStrip(Tail(s)) ELSE s
RECURSIVE RStrip(_)
RStrip(s) ==
    IF s # <<>> /\ s[Len(s)] \in Space THEN RStrip(SubSeq(s, 1, Len(s) - 1)) ELSE s
Strip(s) == RStrip(LStrip(s))

(***************************************************************************)
(* Release tags                                                            *)
(***************************************************************************)
V11     == <<"nym-binaries", "-v", "1", ".", "1">>
V11e    == <<"nym-binaries", "-v", "1", ".", "1", "-emmental">>
V12     == <<"nym-binaries", "-v", "1", ".", "2">>
V20     == <<"nym-binaries", "-v", "2", ".", "0">>
Nightly == <<"nym-binaries", "-nightly">>
Wallet  == <<"nym-wallet", "-v", "5", ".", "0">>

\* the tags GitHub offers
BinaryTags == {V11, V11e, V20, Nightly}
AllTags    == BinaryTags \cup {Wallet}

\* one attempt of r"nym-binaries-v(\d+)\.(\d+)" at position i of tag
MatchAt(tag, i) ==
    LET d1 == i + 2
        e1 == RunEnd(tag, d1, Digits)
        d2 == e1 + 1
        e2 == RunEnd(tag, d2, Digits)
        ok == /\ i + 1 <= Len(tag)
              /\ tag[i] = "nym-binaries"
              /\ tag[i + 1] = "-v"
              /\ e1 > d1
              /\ e1 <= Len(tag)
              /\ tag[e1] = "."
              /\ e2 > d2
    IN  IF ok
        THEN [raised |-> FALSE, major |-> ToInt(tag, d1, e1), minor |-> ToInt(tag, d2, e2)]
        ELSE [raised |-> TRUE, major |-> 0, minor |-> 0]

\* parse_version: re.search takes the leftmost match; raised = ValueError
parse_version(tag) ==
    LET hits == {i \in 1..Len(tag) : ~MatchAt(tag, i).raised}
    IN  IF hits = {}
        THEN [raised |-> TRUE, major |-> 0, minor |-> 0]
        ELSE MatchAt(tag, CHOOSE i \in hits : \A j \in hits : i <= j)

\* an order that also holds between equal tuples
TupleGreaterEq(a, b) ==
    \/ a.major > b.major
    \/ a.major = b.major /\ a.minor >= b.minor

\* Python's order on (major, minor) tuples
TupleGreater(a, b) ==
    \/ a.major > b.major
    \/ a.major = b.major /\ a.minor > b.minor

\* a comparison that asks whether the versions differ, not which is greater
is_newer_version_ne(latest, last) ==
    IF last = Empty
    THEN [raised |-> FALSE, value |-> TRUE]
    ELSE LET a == parse_version(latest)
             b == parse_version(last)
         IN  IF a.raised \/ b.raised
             THEN [raised |-> TRUE, value |-> FALSE]
             ELSE [raised |-> FALSE, value |-> TupleGreater(a, b) \/ TupleGreater(b, a)]

\* is_newer_version: raised = a ValueError left parse_version
is_newer_version(latest, last) ==
    IF last = Empty
    THEN [raised |-> FALSE, value |-> TRUE]
    ELSE LET a == parse_version(latest)
             b == parse_version(last)
         IN  IF a.raised \/ b.raised
             THEN [raised |-> TRUE, value |-> FALSE]
             ELSE [raised |-> FALSE, value |-> TupleGreater(a, b)]

\* the answers of the GitHub releases API
Release      == [tag_name : AllTags, prerelease : BOOLEAN]
ReleaseLists == UNION {[1..n -> Release] : n \in 0..MaxReleases}

\* get_latest_binary_release_tag, given the list the API answered with
FirstStable(releases) ==
    LET ok == {i \in 1..Len(releases) :
                  /\ Head(releases[i].tag_name) = "nym-binaries"
                  /\ ~releases[i].prerelease}
    IN  IF ok = {} THEN Empty
        ELSE releases[CHOOSE i \in ok : \A j \in ok : i <= j].tag_name

\* read_last_release
read_last_release(file) == IF file = NoFile THEN Empty ELSE Strip(file)

\* a writer that records the baseline instead of the candidate
write_last_release_stale(tag, old) == old

\* write_last_release: the new content of STATE_FILE
write_last_release(tag, old) == tag

(***************************************************************************)
(* Journal lines and the liveness value                                    *)
(***************************************************************************)
Hdr == "Packets sent [total]"
Line0    == <<Hdr, ":", "0">>
Line42M  == <<Hdr, ":", "4", "2", "M">>
LineHalf == <<Hdr, ":", "0", ".", "5", "K">>
LineBad  == <<Hdr, ":", "1", ".", "2", ".", "3">>
LineOther == <<"Started", "nym-node">>
Lines == {Line0, Line42M, LineHalf, LineBad, LineOther}

NumChars == Digits \cup {"."}

\* pattern.search(line): r"Packets sent \[total\].*?([\d\.]+)([MK]?)"
pattern_search(line) ==
    LET hs == {i \in 1..Len(line) :
                  /\ line[i] = Hdr
                  /\ \E j \in (i + 1)..Len(line) : line[j] \in NumChars}
    IN  IF hs = {}
        THEN [match |-> FALSE, num_str |-> <<>>, suffix |-> ""]
        ELSE LET h == CHOOSE i \in hs : \A k \in hs : i <= k
                 b == CHOOSE j \in (h + 1)..Len(line) :
                          /\ line[j] \in NumChars
                          /\ \A k \in (h + 1)..(j - 1) : line[k] \notin NumChars
                 e == RunEnd(line, b, NumChars)
             IN  [match   |-> TRUE,
                  num_str |-> SubSeq(line, b, e - 1),
                  suffix  |-> IF e <= Len(line) /\ line[e] \in {"M", "K"}
                              THEN line[e] ELSE ""]

Pow10(n) == CASE n = 0 -> 1 [] n = 1 -> 10

\* float(s), in tenths; raised = ValueError.  At most one digit follows the
\* point in the lines of the model, so tenths are exact.
float(s) ==
    LET dots   == {i \in 1..Len(s) : s[i] = "."}
        digits == {i \in 1..Len(s) : s[i] \in Digits}
    IN  IF Cardinality(dots) > 1 \/ digits = {}
        THEN [raised |-> TRUE, val |-> 0]
        ELSE IF dots = {}
        THEN [raised |-> FALSE, val |-> ToInt(s, 1, Len(s) + 1) * 10]
        ELSE LET d == CHOOSE i \in dots : TRUE
                 frac == Len(s) - d
             IN  [raised |-> FALSE,
                  val |-> ToInt(s, 1, d) * 10
                          + ToInt(s, d + 1, Len(s) + 1) * Pow10(1 - frac)]

\* convert_to_number, in tenths
convert_to_number(s, suffix) ==
    LET f == float(s)
    IN  IF f.raised THEN f
        ELSE [raised |-> FALSE,
              val |-> IF suffix = "M" THEN f.val * 1000000
                      ELSE IF suffix = "K" THEN f.val * 1000
                      ELSE f.val]

\* the line carries a well-formed value greater than 0
Positive(line) ==
    LET m == pattern_search(line)
    IN  /\ m.match
        /\ ~convert_to_number(m.num_str, m.suffix).raised
        /\ convert_to_number(m.num_str, m.suffix).val > 0

(***************************************************************************)
(* Initial state                                                           *)
(***************************************************************************)
Running == -1   \* exit_code while the process has not exited

MonitorIdle ==
    /\ mpc = "idle" /\ now = 0 /\ start_time = 0 /\ wake = 0
    /\ last_value = 0 /\ reader = "none" /\ proc = "none" /\ pipe = <<>>
    /\ emitted = 0 /\ result = "none" /\ ret_time = 0 /\ pos_time = -1
    /\ stored = <<>>

\* the state file is absent, or names the installed binary (with or without
\* a final newline)
Init ==
    /\ state_file \in {NoFile, V11, V12 \o <<"\n">>}
    /\ binary = read_last_release(state_file)
    /\ artifacts = {}
    /\ service = "running"
    /\ pc = "get_latest"
    /\ latest_tag = Empty
    /\ last_tag = Empty
    /\ logged = "none"
    /\ exit_code = Running
    /\ events = <<>>
    /\ runs = 1
    /\ MonitorIdle

(***************************************************************************)
(* main()                                                                  *)
(***************************************************************************)
\* the run performed operation op
Did(op) == \E i \in 1..Len(events) : events[i] = op

\* the process ends: logged line, exit status
Exit(line, code) ==
    /\ logged' = line
    /\ exit_code' = code
    /\ pc' = "done"

\* main, line 190: get_latest_binary_release_tag
GetLatest ==
    /\ pc = "get_latest"
    /\ \/ \* requests.get or raise_for_status raises
          /\ Exit("SourceUnavailable", 1)
          /\ UNCHANGED latest_tag
       \/ \E releases \in ReleaseLists :
             /\ latest_tag' = FirstStable(releases)
             /\ IF FirstStable(releases) = Empty
                THEN Exit("NoEligibleRelease", 0)
                ELSE /\ pc' = "read_last"
                     /\ UNCHANGED <<logged, exit_code>>
    /\ UNCHANGED <<persistent, last_tag, events, runs, monvars>>

\* main, line 196
ReadLast ==
    /\ pc = "read_last"
    /\ last_tag' = read_last_release(state_file)
    /\ pc' = "compare"
    /\ UNCHANGED <<persistent, latest_tag, logged, exit_code, events, runs, monvars>>

\* main, lines 198-207: the three branches, and the ValueError of parse_version
Compare ==
    /\ pc = "compare"
    /\ LET newer == is_newer_version(latest_tag, last_tag)
       IN  IF newer.raised THEN Exit("VersionParseError", 1)
           ELSE IF newer.value
           THEN pc' = "backup" /\ UNCHANGED <<logged, exit_code>>
           ELSE IF latest_tag = last_tag THEN Exit("UpToDate", 0)
           ELSE Exit("DowngradeRejected", 0)
    /\ UNCHANGED <<persistent, latest_tag, last_tag, events, runs, monvars>>

\* main, line 200: backup_nym_folder.  The folder is missing (skipped), or
\* make_archive succeeds, or make_archive raises.
Backup ==
    /\ pc = "backup"
    /\ \/ /\ pc' = "download"
          /\ UNCHANGED <<logged, exit_code, events>>
       \/ /\ events' = Append(events, "backup")
          /\ pc' = "download"
          /\ UNCHANGED <<logged, exit_code>>
       \/ /\ events' = Append(events, "backup_failed")
          /\ Exit("BackupError", 1)
    /\ UNCHANGED <<persistent, latest_tag, last_tag, runs, monvars>>

\* a download whose failure is not looked at (check=False)
DownloadUnchecked ==
    /\ pc = "download"
    /\ \/ /\ events' = Append(events, "fetch")
          /\ artifacts' = artifacts \cup {latest_tag}
       \/ /\ events' = Append(events, "fetch_failed")
          /\ artifacts' \in {artifacts, artifacts \cup {latest_tag}}
    /\ pc' = "isfile"
    /\ UNCHANGED <<logged, exit_code>>
    /\ UNCHANGED <<state_file, binary, service, latest_tag, last_tag, runs, monvars>>

\* main, line 201: download_release.  wget succeeds and the artifact
\* exists, or it fails (check=True raises) with or without a partial file.
Download ==
    /\ pc = "download"
    /\ \/ /\ events' = Append(events, "fetch")
          /\ artifacts' = artifacts \cup {latest_tag}
          /\ pc' = "isfile"
          /\ UNCHANGED <<logged, exit_code>>
       \/ /\ events' = Append(events, "fetch_failed")
          /\ artifacts' \in {artifacts, artifacts \cup {latest_tag}}
          /\ Exit("FetchError", 1)
    /\ UNCHANGED <<state_file, binary, service, latest_tag, last_tag, runs, monvars>>

\* the environment removes the downloaded file before update_binary looks
EnvRemoveArtifact ==
    /\ pc = "isfile"
    /\ latest_tag \in artifacts
    /\ artifacts' = artifacts \ {latest_tag}
    /\ UNCHANGED <<state_file, binary, service, mainvars, monvars>>

\* a check that reports the missing file and returns to main
CheckFileReturns ==
    /\ pc = "isfile"
    /\ IF latest_tag \notin artifacts
       THEN /\ logged' = "ArtifactMissing"
            /\ pc' = "write"
            /\ UNCHANGED <<events, exit_code>>
       ELSE \/ /\ events' = Append(events, "chmod")
               /\ pc' = "stop"
               /\ UNCHANGED <<logged, exit_code>>
            \/ /\ events' = Append(events, "chmod_failed")
               /\ Exit("ChmodError", 1)
    /\ UNCHANGED <<persistent, latest_tag, last_tag, runs, monvars>>

\* update_binary, lines 160-164: isfile, sys.exit(1), chmod (check=True)
CheckFile ==
    /\ pc = "isfile"
    /\ IF latest_tag \notin artifacts
       THEN Exit("ArtifactMissing", 1) /\ UNCHANGED events
       ELSE \/ /\ events' = Append(events, "chmod")
               /\ pc' = "stop"
               /\ UNCHANGED <<logged, exit_code>>
            \/ /\ events' = Append(events, "chmod_failed")
               /\ Exit("ChmodError", 1)
    /\ UNCHANGED <<persistent, latest_tag, last_tag, runs, monvars>>

\* a stop whose failure is logged and then ignored
StopIgnored ==
    /\ pc = "stop"
    /\ \/ /\ events' = Append(events, "stop")
          /\ service' = "stopped"
          /\ pc' = "swap"
          /\ UNCHANGED logged
       \/ /\ events' = Append(events, "stop_failed")
          /\ logged' = "StopFailed"
          /\ pc' = "swap"
          /\ UNCHANGED service
    /\ UNCHANGED <<state_file, binary, artifacts, latest_tag, last_tag, exit_code,
                   runs, monvars>>

\* update_binary, lines 166-167 and 185-186: service stop
Stop ==
    /\ pc = "stop"
    /\ \/ /\ events' = Append(events, "stop")
          /\ service' = "stopped"
          /\ pc' = "swap"
          /\ UNCHANGED logged
       \/ /\ events' = Append(events, "stop_failed")
          /\ logged' = "StopFailed"
          /\ pc' = "write"
          /\ UNCHANGED service
    /\ UNCHANGED <<state_file, binary, artifacts, latest_tag, last_tag, exit_code,
                   runs, monvars>>

Absent == <<"absent">>   \* no file at BINARY_FILENAME

\* update_binary, lines 169-171: os.remove, os.rename; either may raise
Swap ==
    /\ pc = "swap"
    /\ \/ /\ events' = events \o (IF binary = Absent THEN <<>> ELSE <<"remove">>)
                              \o <<"rename">>
          /\ binary' = latest_tag
          /\ artifacts' = artifacts \ {latest_tag}
          /\ pc' = "reload"
          /\ UNCHANGED <<logged, exit_code>>
       \/ /\ binary # Absent
          /\ events' = Append(events, "remove_failed")
          /\ Exit("SwapError", 1)
          /\ UNCHANGED <<binary, artifacts>>
       \/ /\ events' = events \o (IF binary = Absent THEN <<>> ELSE <<"remove">>)
                              \o <<"rename_failed">>
          /\ binary' = Absent
          /\ Exit("SwapError", 1)
          /\ UNCHANGED artifacts
    /\ UNCHANGED <<state_file, service, latest_tag, last_tag, runs, monvars>>

\* update_binary, lines 174 and 184: systemctl daemon-reload
Reload ==
    /\ pc = "reload"
    /\ \/ /\ events' = Append(events, "reload")
          /\ pc' = "start"
          /\ UNCHANGED logged
       \/ /\ events' = Append(events, "reload_failed")
          /\ logged' = "StartFailed"
          /\ pc' = "write"
    /\ UNCHANGED <<persistent, latest_tag, last_tag, exit_code, runs, monvars>>

\* update_binary, lines 175-176 and 184: service start
Start ==
    /\ pc = "start"
    /\ \/ /\ events' = Append(events, "start")
          /\ service' = "running"
          /\ pc' = "monitor"
          /\ UNCHANGED logged
       \/ /\ events' = Append(events, "start_failed")
          /\ logged' = "StartFailed"
          /\ pc' = "write"
          /\ UNCHANGED service
    /\ UNCHANGED <<state_file, binary, artifacts, latest_tag, last_tag, exit_code,
                   runs, monvars>>

(***************************************************************************)
(* monitor_packets                                                         *)
(***************************************************************************)
\* monitor_packets, lines 110-136: Popen, the counter, the thread, start_time
MonitorEnter ==
    /\ pc = "monitor"
    /\ mpc = "idle"
    /\ events' = Append(events, "monitor")
    /\ proc' = "running"
    /\ last_value' = 0
    /\ reader' = "running"
    /\ start_time' = now
    /\ wake' = now
    /\ mpc' = "loop"
    /\ UNCHANGED <<persistent, pc, latest_tag, last_tag, logged, exit_code, runs,
                   now, pipe, emitted, result, ret_time, pos_time, stored>>

\* journalctl -f writes one more line
Emit ==
    /\ mpc = "loop"
    /\ proc = "running"
    /\ emitted < MaxLines
    /\ \E line \in Lines :
          /\ pipe' = Append(pipe, line)
          /\ pos_time' = IF pos_time = -1 /\ Positive(line) THEN now ELSE pos_time
    /\ emitted' = emitted + 1
    /\ UNCHANGED <<persistent, mainvars, mpc, now, start_time, wake, last_value,
                   reader, proc, result, ret_time, stored>>

\* a reader that keeps the greatest value seen
reader_line_max(line, value) ==
    LET m == pattern_search(line)
        c == convert_to_number(m.num_str, m.suffix)
    IN  IF ~m.match THEN [crashed |-> FALSE, wrote |-> FALSE, value |-> value]
        ELSE IF c.raised THEN [crashed |-> TRUE, wrote |-> FALSE, value |-> value]
        ELSE [crashed |-> FALSE, wrote |-> TRUE,
              value |-> IF c.val > value THEN c.val ELSE value]

\* reader, lines 124-131, for one line: the ValueError of float() is not
\* caught and ends the thread
reader_line(line, value) ==
    LET m == pattern_search(line)
        c == convert_to_number(m.num_str, m.suffix)
    IN  IF ~m.match THEN [crashed |-> FALSE, wrote |-> FALSE, value |-> value]
        ELSE IF c.raised THEN [crashed |-> TRUE, wrote |-> FALSE, value |-> value]
        ELSE [crashed |-> FALSE, wrote |-> TRUE, value |-> c.val]

\* the values the counter can hold
Values == {0} \cup {reader_line(line, 0).value : line \in Lines}

\* reader_line, tabulated over the lines journalctl writes and the values
\* of the counter
reader_table == [line \in Lines |-> [value \in Values |-> reader_line(line, value)]]

\* reader, line 123: the thread reads the next line
ReaderStep ==
    /\ reader = "running"
    /\ pipe # <<>>
    /\ LET r == reader_table[Head(pipe)][last_value]
       IN  /\ last_value' = r.value
           /\ reader' = IF r.crashed THEN "crashed" ELSE reader
           /\ stored' = IF r.wrote THEN Append(stored, r.value) ELSE stored
    /\ pipe' = Tail(pipe)
    /\ UNCHANGED <<persistent, mainvars, mpc, now, start_time, wake, proc, emitted,
                   result, ret_time, pos_time>>

\* reader, line 123: end of file after journalctl was terminated
ReaderEOF ==
    /\ reader = "running"
    /\ pipe = <<>>
    /\ proc = "terminated"
    /\ reader' = "exited"
    /\ UNCHANGED <<persistent, mainvars, mpc, now, start_time, wake, last_value,
                   proc, pipe, emitted, result, ret_time, pos_time, stored>>

\* a loop that gives up as soon as the timeout is reached
poll_ge(elapsed, value) ==
    IF elapsed >= timeout THEN "Timeout"
    ELSE IF value > 0 THEN "Live"
    ELSE "sleep"

\* a loop that takes a counter of 0 for a sign of life
poll_any(elapsed, value) ==
    IF elapsed > timeout THEN "Timeout"
    ELSE IF value >= 0 THEN "Live"
    ELSE "sleep"

\* monitor_packets, lines 139-154: one turn of the loop
poll(elapsed, value) ==
    IF elapsed > timeout THEN "Timeout"
    ELSE IF value > 0 THEN "Live"
    ELSE "sleep"

\* a sleep that is given the timeout instead of the interval
sleep_timeout(t) == t + timeout

\* monitor_packets, line 154: time.sleep(check_interval) ends at
sleep(t) == t + check_interval

\* monitor_packets, lines 138-154: the loop wakes, looks, and either sleeps
\* again or terminates journalctl and goes on to join the thread
Poll ==
    /\ mpc = "loop"
    /\ now >= wake
    /\ LET d == poll(now - start_time, last_value)
       IN  IF d = "sleep"
           THEN /\ wake' = sleep(now)
                /\ UNCHANGED <<mpc, proc, result>>
           ELSE /\ result' = d
                /\ proc' = "terminating"
                /\ mpc' = "join"
                /\ wake' = now + JoinTimeout
    /\ UNCHANGED <<persistent, mainvars, now, start_time, last_value, reader, pipe,
                   emitted, ret_time, pos_time, stored>>

\* journalctl, sent SIGTERM by proc.terminate(), exits and closes the pipe
ProcExit ==
    /\ proc = "terminating"
    /\ proc' = "terminated"
    /\ UNCHANGED <<persistent, mainvars, mpc, now, start_time, wake, last_value,
                   reader, pipe, emitted, result, ret_time, pos_time, stored>>

\* the reader has a line or the end of the file to read: it reads it before
\* time passes
ReaderBusy == reader = "running" /\ (pipe # <<>> \/ proc = "terminated")

\* a second passes, in time.sleep or in thread.join
Tick ==
    /\ now < wake
    /\ ~ReaderBusy
    /\ \/ mpc = "loop"
       \/ mpc = "join" /\ reader = "running"
    /\ now' = now + 1
    /\ UNCHANGED <<persistent, mainvars, mpc, start_time, wake, last_value, reader,
                   proc, pipe, emitted, result, ret_time, pos_time, stored>>

\* a join without a timeout: it ends only when the thread has ended
JoinForever ==
    /\ mpc = "join"
    /\ reader # "running"
    /\ mpc' = "done"
    /\ ret_time' = now
    /\ UNCHANGED <<persistent, mainvars, now, start_time, wake, last_value, reader,
                   proc, pipe, emitted, result, pos_time, stored>>

\* monitor_packets, lines 145-146 and 151-152: thread.join(timeout=1) ends
\* because the thread ended or because the second is over; return
Join ==
    /\ mpc = "join"
    /\ reader # "running" \/ now >= wake
    /\ mpc' = "done"
    /\ ret_time' = now
    /\ UNCHANGED <<persistent, mainvars, now, start_time, wake, last_value, reader,
                   proc, pipe, emitted, result, pos_time, stored>>

\* the locals of monitor_packets are gone; the daemon thread no longer
\* matters to the run
MonitorLeft ==
    /\ mpc' = "idle" /\ now' = 0 /\ start_time' = 0 /\ wake' = 0
    /\ last_value' = 0 /\ reader' = "none" /\ proc' = "none" /\ pipe' = <<>>
    /\ emitted' = 0 /\ result' = "none" /\ ret_time' = 0 /\ pos_time' = -1
    /\ stored' = <<>>

\* update_binary, lines 178-182
MonitorReturn ==
    /\ pc = "monitor"
    /\ mpc = "done"
    /\ logged' = IF result = "Live" THEN "Success" ELSE "HealthTimeout"
    /\ pc' = "write"
    /\ MonitorLeft
    /\ UNCHANGED <<persistent, latest_tag, last_tag, exit_code, events, runs>>

(***************************************************************************)
(* The end of a run, and the next run                                      *)
(***************************************************************************)
\* main, line 203, and the normal end of the process
WriteLast ==
    /\ pc = "write"
    /\ state_file' = write_last_release(latest_tag, last_tag)
    /\ events' = Append(events, "write")
    /\ exit_code' = 0
    /\ pc' = "done"
    /\ UNCHANGED <<binary, artifacts, service, latest_tag, last_tag, logged, runs,
                   monvars>>

\* the scheduler starts the program again
NextRun ==
    /\ pc = "done"
    /\ runs < MaxRuns
    /\ runs' = runs + 1
    /\ pc' = "get_latest"
    /\ latest_tag' = Empty
    /\ last_tag' = Empty
    /\ logged' = "none"
    /\ exit_code' = Running
    /\ events' = <<>>
    /\ UNCHANGED monvars
    /\ UNCHANGED persistent

Next ==
    \/ GetLatest \/ ReadLast \/ Compare \/ Backup \/ Download
    \/ EnvRemoveArtifact \/ CheckFile \/ Stop \/ Swap \/ Reload \/ Start
    \/ MonitorEnter \/ Emit \/ ReaderStep \/ ReaderEOF \/ Poll \/ ProcExit \/ Tick
    \/ Join
    \/ MonitorReturn \/ WriteLast \/ NextRun

Spec == Init /\ [][Next]_vars

(***************************************************************************)
(* Properties                                                              *)
(***************************************************************************)
Ended == pc = "done"

\* what read_last_release would now return
Persisted == read_last_release(state_file)

\* monitor_packets has returned to update_binary
Returned == pc = "monitor" /\ mpc = "done"

\* C1: a run that ends as StartFailed (the candidate was newer, fetch and
\* stop succeeded, reload or start failed) leaves the persisted release
\* equal to the baseline read at the start of the run.
C1_StartFailedKeepsState ==
    (Ended /\ logged = "StartFailed") => Persisted = last_tag

\* C2: a run whose service stop failed ends as StopFailed with the binary
\* not replaced, the service not started, the artifact still on disk and
\* the persisted release equal to the baseline.
C2_StopFailedKeepsState ==
    (Ended /\ Did("stop_failed")) =>
        /\ logged = "StopFailed"
        /\ ~Did("remove") /\ ~Did("rename")
        /\ ~Did("start") /\ ~Did("start_failed")
        /\ latest_tag \in artifacts
        /\ Persisted = last_tag

\* C3: the exit status is 0 after Success, UpToDate and NoEligibleRelease,
\* and not 0 after a release-source failure, a version parse failure, a
\* fetch failure, a missing artifact, a stop failure and a reload/start
\* failure.
C3_ExitCodes ==
    Ended =>
        /\ logged \in {"Success", "UpToDate", "NoEligibleRelease"} => exit_code = 0
        /\ logged \in {"SourceUnavailable", "VersionParseError", "FetchError",
                       "ArtifactMissing", "StopFailed", "StartFailed"}
               => exit_code # 0

\* C4: when fetch, stop, swap, reload and start all succeeded, the persisted
\* release is the candidate at the end of the run, after Live (Success) as
\* after Timeout (HealthTimeout).
C4_StateIsCandidate ==
    (Ended /\ Did("start")) =>
        /\ logged \in {"Success", "HealthTimeout"}
        /\ state_file = latest_tag

C4_Witness ==
    /\ Ended /\ Did("start")
    /\ logged = "HealthTimeout"
    /\ last_tag = V11 /\ latest_tag = V20 /\ state_file = V20

\* C5: when both identifiers parse and the candidate's (major, minor) is
\* less than the baseline's, the run ends as DowngradeRejected and performed
\* no operation at all; the persisted release is the baseline.
Older(latest, last) ==
    /\ ~parse_version(latest).raised
    /\ ~parse_version(last).raised
    /\ TupleGreater(parse_version(last), parse_version(latest))

C5_DowngradeRejected ==
    (pc \notin {"get_latest", "read_last", "compare"} /\ Older(latest_tag, last_tag)) =>
        /\ Ended
        /\ logged = "DowngradeRejected"
        /\ events = <<>>
        /\ Persisted = last_tag

C5_Witness ==
    /\ Ended /\ logged = "DowngradeRejected"
    /\ latest_tag = V11 /\ last_tag = V20
    /\ binary = V20 /\ service = "running"

\* C6: a run whose candidate is any non-empty identifier equal to the
\* baseline ends as UpToDate, performed no operation and exits with 0.
C6_SameIsUpToDate ==
    (Ended /\ latest_tag # Empty /\ latest_tag = last_tag) =>
        /\ logged = "UpToDate"
        /\ events = <<>>
        /\ exit_code = 0

\* C7: once the download has failed, the run is over: the service was not
\* stopped or started, the binary was not removed or replaced, and the
\* persisted release is the baseline.
C7_FetchFailureAborts ==
    Did("fetch_failed") =>
        /\ Ended
        /\ \A op \in {"stop", "stop_failed", "remove", "remove_failed", "rename",
                      "rename_failed", "reload", "reload_failed", "start",
                      "start_failed", "monitor", "write"} : ~Did(op)
        /\ Persisted = last_tag

C7_Witness ==
    /\ Ended /\ Did("fetch_failed")
    /\ logged = "FetchError" /\ exit_code = 1
    /\ last_tag = V11 /\ latest_tag = V20
    /\ latest_tag \in artifacts
    /\ service = "running" /\ binary = V11

\* C8: a run whose backup failed still went on to the download.
C8_BackupFailureGoesOn ==
    (Ended /\ Did("backup_failed")) => (Did("fetch") \/ Did("fetch_failed"))

\* C9: when the stream carried a positive value at a time T less than the
\* timeout after the start, monitor_packets returns Live, and no later than
\* one poll interval after T.
C9_PositiveIsLive ==
    (Returned /\ pos_time # -1 /\ pos_time - start_time < timeout) =>
        /\ result = "Live"
        /\ ret_time <= pos_time + check_interval

\* C10 as stated: when the stream never carried a positive value,
\* monitor_packets returns Timeout, no earlier than the timeout and no later
\* than the timeout plus one poll interval.
C10_TimeoutWithinInterval ==
    (Returned /\ pos_time = -1) =>
        /\ result = "Timeout"
        /\ ret_time - start_time >= timeout
        /\ ret_time - start_time <= timeout + check_interval

\* C10 as amended: ... and no later than the timeout plus one poll interval
\* plus the second that thread.join may wait for the reader.
C10_TimeoutWithinIntervalAndJoin ==
    (Returned /\ pos_time = -1) =>
        /\ result = "Timeout"
        /\ ret_time - start_time >= timeout
        /\ ret_time - start_time <= timeout + check_interval + JoinTimeout

C10_Witness ==
    /\ Returned /\ pos_time = -1
    /\ emitted = 0
    /\ result = "Timeout"
    /\ ret_time - start_time = timeout + check_interval + JoinTimeout

\* the line matches the pattern and its numeric text converts
WellFormed(line) ==
    LET m == pattern_search(line)
    IN  m.match /\ ~convert_to_number(m.num_str, m.suffix).raised

\* C11: a matching line with malformed numeric text does not stop the
\* reader: while the observation polls, a well-formed matching line that
\* waits in the stream still has a running reader to process it.
C11_MalformedLineSkipped ==
    (mpc = "loop" /\ \E i \in 1..Len(pipe) : WellFormed(pipe[i])) =>
        reader = "running"

\* 42,000,000 in tenths
FortyTwoMillion == convert_to_number(<<"4", "2">>, "M").val

\* the reader reads `line` in this step
Reads(line) == ReaderStep /\ Head(pipe) = line

\* C12 as stated: the counter equals 42,000,000 after the reader processed
\* the 42M line, and still equals 42,000,000 after it processed the
\* following line with value 0.
C12_CounterKeepsFirstValue ==
    [][/\ Reads(Line42M) => last_value' = FortyTwoMillion
       /\ (Reads(Line0) /\ last_value = FortyTwoMillion)
              => last_value' = FortyTwoMillion]_vars

\* C12 as amended: the counter equals 42,000,000 after the 42M line and
\* equals 0 after the following line with value 0 (the last write wins).
C12_CounterIsLastValue ==
    [][/\ Reads(Line42M) => last_value' = FortyTwoMillion
       /\ (Reads(Line0) /\ last_value = FortyTwoMillion) => last_value' = 0]_vars

C12_Witness ==
    /\ mpc = "loop"
    /\ stored = <<FortyTwoMillion, 0>>
    /\ last_value = 0
    /\ reader = "running"

\* The polling thread and the reader thread are scheduled, and time
\* advances.  Nothing is assumed of journalctl: it may write no line, and it
\* may never exit after SIGTERM.
\* update_binary, line 178: the state in which monitor_packets is called,
\* after a run replaced the binary and started the service
MonitorInit ==
    /\ state_file \in {NoFile, V11}
    /\ binary = V20
    /\ artifacts = {}
    /\ service = "running"
    /\ pc = "monitor"
    /\ latest_tag = V20
    /\ last_tag = read_last_release(state_file)
    /\ logged = "none"
    /\ exit_code = Running
    /\ events = (IF state_file = NoFile THEN <<"fetch", "chmod", "stop">>
                 ELSE <<"backup", "fetch", "chmod", "stop", "remove">>)
                \o <<"rename", "reload", "start">>
    /\ runs = 1
    /\ MonitorIdle

\* monitor_packets, lines 110-154, with journalctl and the clock
MonitorNext ==
    \/ MonitorEnter \/ Emit \/ ReaderStep \/ ReaderEOF \/ Poll \/ ProcExit
    \/ Tick \/ Join

\* The polling thread and the reader thread are scheduled, and time
\* advances.  Nothing is assumed of journalctl: it may write no line, and it
\* may never exit after SIGTERM.
MonitorSpec ==
    /\ MonitorInit /\ [][MonitorNext]_vars
    /\ WF_vars(MonitorEnter) /\ WF_vars(Poll) /\ WF_vars(Tick) /\ WF_vars(Join)
    /\ WF_vars(ReaderStep) /\ WF_vars(ReaderEOF)

\* the number of times this run entered monitor_packets and started a reader
ReadersStarted == Cardinality({i \in 1..Len(events) : events[i] = "monitor"})

\* C13: an observation that polls always comes to its return, with Live or
\* Timeout; when the loop has ended journalctl has been terminated and the
\* return waits for the reader no longer than the join timeout; and one
\* reader thread is started per observation, at its beginning.
C13_MonitorReturns ==
    /\ (mpc = "loop") ~> (mpc = "done")
    /\ [](mpc \in {"join", "done"} =>
            /\ result \in {"Live", "Timeout"}
            /\ proc \in {"terminating", "terminated"}
            /\ wake <= now + JoinTimeout)
    /\ [](mpc = "done" => ret_time <= wake)
    /\ [](mpc # "idle" => ReadersStarted = 1 /\ reader # "none")
    /\ [][(reader # "running" /\ reader' = "running") => MonitorEnter]_vars

C13_Witness ==
    /\ Returned
    /\ result = "Timeout"
    /\ reader = "running"
    /\ proc = "terminating"
    /\ ret_time = wake

\* identifiers that match the version pattern: with and without a code
\* name, with a leading zero, with a minor of two digits
V05  == <<"nym-binaries", "-v", "0", ".", "5">>
V012 == <<"nym-binaries", "-v", "0", "1", ".", "2">>
V110 == <<"nym-binaries", "-v", "1", ".", "1", "0">>
V21  == <<"nym-binaries", "-v", "2", ".", "1", "-fondue">>
VersionTags == {V05, V11, V11e, V12, V012, V110, V20, V21}

\* main, line 198: the comparison is about to be made, of any candidate
\* with any baseline the state file holds
VersionInit ==
    /\ latest_tag \in VersionTags
    /\ last_tag \in VersionTags
    /\ state_file = last_tag
    /\ binary = last_tag
    /\ artifacts = {}
    /\ service = "running"
    /\ pc = "compare"
    /\ logged = "none"
    /\ exit_code = Running
    /\ events = <<>>
    /\ runs = 1
    /\ MonitorIdle

VersionSpec == VersionInit /\ [][Compare]_vars

\* is_newer_version returned True
Newer(a, b) == ~is_newer_version(a, b).raised /\ is_newer_version(a, b).value

\* the (major, minor) of an identifier
Pair(tag) == <<parse_version(tag).major, parse_version(tag).minor>>

\* C14: on identifiers that match the version pattern, newer-than is a
\* strict total order on the (major, minor) pairs: no identifier is newer
\* than itself, two identifiers are never each newer than the other, newer
\* is transitive, and of two different pairs one is newer than the other;
\* main takes the update branch exactly when the candidate is newer.
C14_StrictTotalOrder ==
    /\ ~parse_version(latest_tag).raised /\ ~parse_version(last_tag).raised
    /\ ~Newer(latest_tag, latest_tag)
    /\ ~(Newer(latest_tag, last_tag) /\ Newer(last_tag, latest_tag))
    /\ \A third \in VersionTags :
          (Newer(latest_tag, last_tag) /\ Newer(last_tag, third))
              => Newer(latest_tag, third)
    /\ Pair(latest_tag) # Pair(last_tag)
          <=> (Newer(latest_tag, last_tag) \/ Newer(last_tag, latest_tag))
    /\ pc # "compare" => (pc = "backup" <=> Newer(latest_tag, last_tag))

C14_Witness ==
    /\ pc = "backup"
    /\ latest_tag = V110 /\ last_tag = V12
    /\ Newer(latest_tag, last_tag) /\ ~Newer(last_tag, latest_tag)

\* C15: when update_binary finds no file at the artifact's path, the
\* process is over at once with a status other than 0: the service was not
\* stopped or started, the binary was not removed or replaced, and the
\* state file was not written.
C15_MissingArtifactAborts ==
    logged = "ArtifactMissing" =>
        /\ Ended
        /\ exit_code \notin {Running, 0}
        /\ \A op \in {"chmod", "stop", "stop_failed", "remove", "remove_failed",
                      "rename", "rename_failed", "reload", "reload_failed",
                      "start", "start_failed", "monitor", "write"} : ~Did(op)
        /\ Persisted = last_tag
        /\ latest_tag \notin artifacts

C15_Witness ==
    /\ Ended /\ logged = "ArtifactMissing" /\ exit_code = 1
    /\ Did("fetch")
    /\ last_tag = V11 /\ latest_tag = V20
    /\ state_file = V11 /\ binary = V11 /\ service = "running"

\* C16: at the end of every run a non-empty persisted release names the
\* installed binary, and a run that wrote the state file is a run that
\* moved the candidate's artifact into the binary's place.
C16_StateNamesBinary ==
    Ended =>
        /\ Persisted # Empty => binary = Persisted
        /\ Did("write") => (Did("rename") /\ binary = latest_tag)

\* the run performed op before its i-th operation
Before(op, i) == \E j \in 1..(i - 1) : events[j] = op

\* C17: the operations of a run come in a fixed order, each after the
\* success of the one before: the stop is attempted only after the fetch,
\* the binary is removed and replaced only after a successful stop, the
\* start is attempted only after the replacement and a successful reload,
\* the monitor runs only after a successful start, and the state file is
\* written at most once, as the last operation of the run.
C17_StepsInOrder ==
    /\ \A i \in 1..Len(events) :
          /\ events[i] \in {"stop", "stop_failed"} => Before("fetch", i)
          /\ events[i] \in {"remove", "remove_failed", "rename", "rename_failed"}
                 => Before("stop", i)
          /\ events[i] \in {"reload", "reload_failed"} => Before("rename", i)
          /\ events[i] \in {"start", "start_failed"}
                 => (Before("rename", i) /\ Before("reload", i))
          /\ events[i] = "monitor" => Before("start", i)
          /\ events[i] = "write" => i = Len(events)
    /\ Did("write") => Ended

C17_Witness ==
    /\ Ended
    /\ events = <<"backup", "fetch", "chmod", "stop", "remove", "rename", "reload",
                  "start", "monitor", "write">>

\* the identifier matches the version pattern
Parseable(tag) == ~parse_version(tag).raised

\* C18: with parseable identifiers, no step lowers the (major, minor) of
\* the persisted release, and a step that puts a new binary in place puts
\* the candidate there, in a run whose baseline was empty or whose
\* candidate's (major, minor) is strictly greater than the baseline's.
C18_NeverDowngrades ==
    [][/\ (/\ state_file' # state_file
           /\ Parseable(Persisted) /\ Parseable(read_last_release(state_file')))
             => ~TupleGreater(parse_version(Persisted),
                              parse_version(read_last_release(state_file')))
       /\ (binary' # binary /\ binary' # Absent)
             => /\ binary' = latest_tag
                /\ \/ last_tag = Empty
                   \/ /\ Parseable(latest_tag) /\ Parseable(last_tag)
                      /\ TupleGreater(parse_version(latest_tag),
                                      parse_version(last_tag))]_vars

C18_Witness ==
    /\ runs = 2 /\ Ended /\ Did("rename")
    /\ last_tag = V11 /\ latest_tag = V20
    /\ binary = V20 /\ state_file = V20

\* C19: a run whose candidate and baseline both parse and have the same
\* (major, minor) ends as UpToDate, whatever the two strings are; a run ends
\* as DowngradeRejected only when the candidate's (major, minor) is
\* strictly less than the baseline's.
C19_ComparisonByPairOnly ==
    Ended =>
        /\ (/\ Parseable(latest_tag) /\ Parseable(last_tag)
            /\ Pair(latest_tag) = Pair(last_tag)) => logged = "UpToDate"
        /\ logged = "DowngradeRejected" => Older(latest_tag, last_tag)

\* C20: when monitor_packets returns Live, the reader of this observation
\* has stored a value greater than 0 before the return; the counter is 0
\* when the observation begins, afterwards it is the value the reader
\* stored last, and only a step of the reader changes it during the
\* observation.
C20_LiveHasEvidence ==
    /\ []((mpc \in {"join", "done"} /\ result = "Live")
             => \E i \in 1..Len(stored) : stored[i] > 0)
    /\ [](last_value = IF stored = <<>> THEN 0 ELSE stored[Len(stored)])
    /\ [][(mpc # "idle" /\ mpc' # "idle" /\ last_value' # last_value)
             => ReaderStep]_vars

C20_Witness ==
    /\ Returned /\ result = "Live"
    /\ stored = <<0, FortyTwoMillion>>
    /\ last_value = FortyTwoMillion

====
